---- MODULE Spec2Model ----
(***************************************************************************)
(* Model of backend/python-scripts/spacy-llm.py: the sentence trimmer      *)
(* trim_sentence_with_occurrence, the extractor extract_pos_tags and the   *)
(* process boundary main.                                                  *)
(*                                                                         *)
(* Python strings are sequences of one-character strings, so that split,   *)
(* join, lower and strip are computed and not assumed.  Positions inside   *)
(* the trimmer are 0-based as in the source; sequences are 1-based.        *)
(***************************************************************************)
EXTENDS Integers, Sequences, FiniteSets, TLC

VARIABLES
  \* one call of trim_sentence_with_occurrence
  sentence, occurrence_word, max_words, trim_pc, occurrence_pos, start, end, trimmed,
  \* one run of main
  pc, input_data, transcript, doc,
  nouns, verbs, adjectives,
  noun_occurrences, noun_original_sentences,
  verb_occurrences, verb_original_sentences,
  adjective_occurrences, adjective_original_sentences,
  result, exception, stdout, stderr, exit_code

trimVars == <<sentence, occurrence_word, max_words, trim_pc, occurrence_pos, start, end, trimmed>>
mainVars == <<pc, input_data, transcript, doc, nouns, verbs, adjectives,
              noun_occurrences, noun_original_sentences,
              verb_occurrences, verb_original_sentences,
              adjective_occurrences, adjective_original_sentences,
              result, exception, stdout, stderr, exit_code>>
vars == <<trimVars, mainVars>>

None == "None"

----------------------------------------------------------------------------
(* Python string primitives *)

SetMin(S) == CHOOSE x \in S : \A y \in S : x <= y
Abs(x) == IF x < 0 THEN 0 - x ELSE x
Min2(a, b) == IF a <= b THEN a ELSE b
Max2(a, b) == IF a >= b THEN a ELSE b

\* characters str.split() and str.strip() treat as whitespace
Whitespace == {" ", "\t"}

\* the argument of strip at lines 48 and 52
PunctChars == {".", ",", "!", "?", ";", ":", "(", ")", "[", "]", "{", "}", "\"", "'"}

\* str.lower() on one character of the alphabet in use
LowerChar(c) ==
  CASE c = "A" -> "a"
    [] c = "H" -> "h"
    [] c = "T" -> "t"
    [] c = "Z" -> "z"
    [] OTHER -> c

lower(s) == [i \in 1..Len(s) |-> LowerChar(s[i])]

RECURSIVE lstrip(_, _)
\* s.lstrip(chars): drop the leading characters that are in chars
lstrip(s, chars) ==
  IF s # <<>> /\ Head(s) \in chars THEN lstrip(Tail(s), chars) ELSE s

RECURSIVE rstrip(_, _)
\* s.rstrip(chars): drop the trailing characters that are in chars
rstrip(s, chars) ==
  IF s # <<>> /\ s[Len(s)] \in chars THEN rstrip(SubSeq(s, 1, Len(s) - 1), chars) ELSE s

\* s.strip(chars): drop the leading and the trailing characters that are in chars
strip(s, chars) == rstrip(lstrip(s, chars), chars)

RECURSIVE SplitAcc(_, _, _, _)
SplitAcc(s, i, cur, acc) ==
  IF i > Len(s)
  THEN (IF cur = <<>> THEN acc ELSE Append(acc, cur))
  ELSE IF s[i] \in Whitespace
       THEN SplitAcc(s, i + 1, <<>>, IF cur = <<>> THEN acc ELSE Append(acc, cur))
       ELSE SplitAcc(s, i + 1, Append(cur, s[i]), acc)

\* s.split(): the maximal runs of non-whitespace characters, in order
split(s) == SplitAcc(s, 1, <<>>, <<>>)

RECURSIVE join(_, _)
\* sep.join(ws)
join(sep, ws) ==
  IF ws = <<>> THEN <<>>
  ELSE IF Len(ws) = 1 THEN ws[1]
  ELSE ws[1] \o sep \o join(sep, Tail(ws))

startswith(s, prefix) == Len(prefix) <= Len(s) /\ SubSeq(s, 1, Len(prefix)) = prefix

\* words[a:b] for 0 <= a, b <= Len(words)
Slice(ws, a, b) == SubSeq(ws, a + 1, b)

----------------------------------------------------------------------------
(* trim_sentence_with_occurrence *)

\* word.lower().strip('.,!?;:()[]{}"\'')
Clean(word) == strip(lower(word), PunctChars)

\* the test of one loop iteration, lines 54-62: the if and the elif both
\* assign occurrence_pos and break
WordMatches(word_clean, occurrence_clean) ==
  \/ word_clean = occurrence_clean
  \/ /\ Abs(Len(word_clean) - Len(occurrence_clean)) <= 2
     /\ \/ startswith(occurrence_clean, word_clean)
        \/ startswith(word_clean, occurrence_clean)

\* the loop of lines 49-62: the first index whose word passes the test, else -1
FindOccurrence(words, word) ==
  LET occurrence_clean == Clean(word)
      hits == {i \in 0..(Len(words) - 1) : WordMatches(Clean(words[i + 1]), occurrence_clean)}
  IN IF hits = {} THEN 0 - 1 ELSE SetMin(hits)

\* lines 70-71
WordsBefore0(p, m) == Min2(p, m \div 2)
WordsAfter0(n, p, m) == Min2(n - p - 1, m \div 2)

\* line 74
Remaining(n, p, m) == m - (WordsBefore0(p, m) + WordsAfter0(n, p, m) + 1)

\* lines 77-78
ExtraBefore(n, p, m) == Min2(p - WordsBefore0(p, m), Remaining(n, p, m) \div 2)
ExtraAfter(n, p, m) ==
  Min2(n - p - 1 - WordsAfter0(n, p, m), Remaining(n, p, m) - ExtraBefore(n, p, m))

\* words_before and words_after after lines 75-80
WordsBefore(n, p, m) ==
  IF Remaining(n, p, m) > 0 THEN WordsBefore0(p, m) + ExtraBefore(n, p, m)
  ELSE WordsBefore0(p, m)
WordsAfter(n, p, m) ==
  IF Remaining(n, p, m) > 0 THEN WordsAfter0(n, p, m) + ExtraAfter(n, p, m)
  ELSE WordsAfter0(n, p, m)

\* lines 83-84
WindowStart(n, p, m) == Max2(0, p - WordsBefore(n, p, m))
\* line 84 with the matched word left out of the count
WindowEndWithoutWord(n, p, m) == Min2(n, p + WordsAfter(n, p, m))
WindowEnd(n, p, m) == Min2(n, p + WordsAfter(n, p, m) + 1)

trim_sentence_with_occurrence(s, word, m) ==
  LET words == split(s)
      n == Len(words)
      p == FindOccurrence(words, word)
  IN IF n <= m THEN s
     ELSE IF p = 0 - 1 THEN join(<<" ">>, Slice(words, 0, m))
     ELSE join(<<" ">>, Slice(words, WindowStart(n, p, m), WindowEnd(n, p, m)))

----------------------------------------------------------------------------
(* extract_pos_tags: one iteration of the token loop, and the Result *)

\* the max_words argument of the three calls, lines 163, 175 and 187
PhraseMaxWords == 20

\* ord(c) for the characters in use
CodePoint(c) ==
  CASE c = "\t" -> 9 [] c = " " -> 32 [] c = "," -> 44 [] c = "." -> 46
    [] c = "A" -> 65 [] c = "H" -> 72 [] c = "T" -> 84 [] c = "Z" -> 90
    [] c = "a" -> 97 [] c = "e" -> 101 [] c = "g" -> 103 [] c = "h" -> 104
    [] c = "t" -> 116 [] c = "u" -> 117 [] c = "x" -> 120 [] c = "z" -> 122

\* a < b for Python strings: by code point at the first difference, a proper
\* prefix first
StrLess(a, b) ==
  LET diff == {i \in 1..Min2(Len(a), Len(b)) : a[i] # b[i]}
  IN IF diff = {} THEN Len(a) < Len(b)
     ELSE CodePoint(a[SetMin(diff)]) < CodePoint(b[SetMin(diff)])

RECURSIVE sortedDescending(_)
\* sorted(S, reverse=True)
sortedDescending(S) ==
  IF S = {} THEN <<>>
  ELSE LET most == CHOOSE x \in S : \A y \in S \ {x} : StrLess(y, x)
       IN <<most>> \o sortedDescending(S \ {most})

RECURSIVE sorted(_)
\* sorted(S) for a set or the keys of a dict: ascending
sorted(S) ==
  IF S = {} THEN <<>>
  ELSE LET least == CHOOSE x \in S : \A y \in S \ {x} : StrLess(x, y)
       IN <<least>> \o sorted(S \ {least})

\* line 133: token.lemma_.lower().strip()
Lemma(token) == strip(lower(token.lemma_), Whitespace)

\* lines 144-145: some sentence of doc.sents holds the token
HasSentence(sents, token) == token.sent \in 1..Len(sents)

\* line 146: sent.text.strip() of the sentence that holds the token
ContainingSentence(sents, token) == strip(sents[token.sent], Whitespace)

\* the continue statements without the empty-lemma filter of line 136
SkipsTokenKeepsEmptyLemma(sents, token) ==
  \/ token.is_punct \/ token.is_space
  \/ ~HasSentence(sents, token)
  \/ (HasSentence(sents, token) /\ ContainingSentence(sents, token) = <<>>)

\* the three continue statements, lines 129, 136 and 149
SkipsToken(sents, token) ==
  \/ token.is_punct \/ token.is_space
  \/ Lemma(token) = <<>>
  \/ ~HasSentence(sents, token)
  \/ (HasSentence(sents, token) /\ ContainingSentence(sents, token) = <<>>)

\* dict lookups that lines 156-158 make safe
Phrases(occurrences, lemma) ==
  IF lemma \in DOMAIN occurrences THEN occurrences[lemma] ELSE <<>>
SeenSentences(original_sentences, lemma) ==
  IF lemma \in DOMAIN original_sentences THEN original_sentences[lemma] ELSE {}

\* lines 154, 166, 178: set.add
AddLemma(lemmas, lemma) == lemmas \cup {lemma}

\* lines 156-161 without the add of line 161
AddOriginalSentenceForgets(original_sentences, lemma, containing_sentence) ==
  [l \in DOMAIN original_sentences \cup {lemma} |-> SeenSentences(original_sentences, l)]

\* lines 156-161: the lemma's set of sentences seen, after the iteration
AddOriginalSentence(original_sentences, lemma, containing_sentence) ==
  [l \in DOMAIN original_sentences \cup {lemma} |->
     IF l = lemma
     THEN SeenSentences(original_sentences, lemma) \cup {containing_sentence}
     ELSE original_sentences[l]]

\* lines 156-164 with the duplicate test made on the trimmed phrase
AddOccurrenceDedupByPhrase(occurrences, original_sentences, lemma, containing_sentence, token_text) ==
  LET phrase == trim_sentence_with_occurrence(containing_sentence, token_text, PhraseMaxWords)
  IN [l \in DOMAIN occurrences \cup {lemma} |->
        IF l = lemma
        THEN IF \E i \in 1..Len(Phrases(occurrences, lemma)) :
                  Phrases(occurrences, lemma)[i] = phrase
             THEN Phrases(occurrences, lemma)
             ELSE Append(Phrases(occurrences, lemma), phrase)
        ELSE occurrences[l]]

\* lines 156-164: the lemma's phrases, after the iteration
AddOccurrence(occurrences, original_sentences, lemma, containing_sentence, token_text) ==
  [l \in DOMAIN occurrences \cup {lemma} |->
     IF l = lemma
     THEN IF containing_sentence \in SeenSentences(original_sentences, lemma)
          THEN Phrases(occurrences, lemma)
          ELSE Append(Phrases(occurrences, lemma),
                      trim_sentence_with_occurrence(containing_sentence, token_text,
                                                    PhraseMaxWords))
     ELSE occurrences[l]]

RECURSIVE OccurrenceEntries(_, _, _)
\* the inner loop, lines 193-197: one {key: lemma, "phrase": phrase} per phrase
OccurrenceEntries(key, lemma, phrases) ==
  IF phrases = <<>> THEN <<>>
  ELSE <<[k \in {key, "phrase"} |-> IF k = key THEN lemma ELSE Head(phrases)]>>
       \o OccurrenceEntries(key, lemma, Tail(phrases))

RECURSIVE OccurrenceListOver(_, _, _)
OccurrenceListOver(key, occurrences, lemmas) ==
  IF lemmas = <<>> THEN <<>>
  ELSE OccurrenceEntries(key, Head(lemmas), occurrences[Head(lemmas)])
       \o OccurrenceListOver(key, occurrences, Tail(lemmas))

\* lines 191-213: the flat list, lemmas in sorted order
OccurrenceList(key, occurrences) ==
  OccurrenceListOver(key, occurrences, sorted(DOMAIN occurrences))

\* lines 101-108
EmptyResult ==
  [nouns |-> <<>>, verbs |-> <<>>, adjectives |-> <<>>,
   verb_occurrences |-> <<>>, noun_occurrences |-> <<>>, adjective_occurrences |-> <<>>]

\* lines 216-223
BuiltResult ==
  [nouns |-> sorted(nouns), verbs |-> sorted(verbs), adjectives |-> sorted(adjectives),
   verb_occurrences |-> OccurrenceList("infinitive", verb_occurrences),
   noun_occurrences |-> OccurrenceList("noun", noun_occurrences),
   adjective_occurrences |-> OccurrenceList("adjective", adjective_occurrences)]

----------------------------------------------------------------------------
(* main: the values it handles *)

\* values of Python variables that are not yet bound, or hold a JSON value
Unset == [type |-> "unset"]
Str(chars) == [type |-> "str", val |-> chars]
Num(n) == [type |-> "num", val |-> n]
Null == [type |-> "null"]
Array == [type |-> "array"]
Object(has, v) == [type |-> "object", has_transcript |-> has, transcript |-> v]

\* bool(v), as `not transcript` at line 247 computes it
Truthy(v) ==
  CASE v.type = "str" -> v.val # <<>>
    [] v.type = "num" -> v.val # 0
    [] OTHER -> FALSE

\* a bare `except:` at line 260
ExceptCatchesAll(e) == TRUE

\* the handler at line 260 is `except Exception`; sys.exit raises SystemExit,
\* which is no subclass of Exception
ExceptCatches(e) == e # "SystemExit"

\* `not text or not text.strip()`, line 100, for a str
IsBlankText(v) == v.type = "str" /\ strip(v.val, Whitespace) = <<>>

----------------------------------------------------------------------------
(* One call of trim_sentence_with_occurrence on inputs drawn from bounded sets *)

MaxSentenceWords == 4
MaxMaxWords == 3

W_Tag == <<"T", "a", "g">>
W_Tage == <<"T", "a", "g", "e">>
W_TagDot == <<"T", "a", "g", ".">>
W_zu == <<"z", "u">>
W_Comma == <<",">>

TrimVocabulary == {W_Tag, W_Tage, W_TagDot, W_zu, W_Comma}
TrimTargets == {W_Tag, W_Tage, W_zu}
Separators == {<<" ">>, <<" ", "\t">>}

\* the program's variables while only the trimmer is exercised
MainIdle ==
  /\ pc = "idle" /\ input_data = None /\ transcript = Unset /\ doc = <<>>
  /\ nouns = {} /\ verbs = {} /\ adjectives = {}
  /\ noun_occurrences = <<>> /\ noun_original_sentences = <<>>
  /\ verb_occurrences = <<>> /\ verb_original_sentences = <<>>
  /\ adjective_occurrences = <<>> /\ adjective_original_sentences = <<>>
  /\ result = None /\ exception = None /\ stdout = <<>> /\ stderr = <<>> /\ exit_code = None

TrimInit ==
  /\ \E k \in 1..MaxSentenceWords :
       \E ws \in [1..k -> TrimVocabulary] :
         \E sep \in Separators : sentence = join(sep, ws)
  /\ occurrence_word \in TrimTargets
  /\ max_words \in 1..MaxMaxWords
  /\ trim_pc = "call"
  /\ occurrence_pos = None /\ start = None /\ end = None /\ trimmed = None
  /\ MainIdle

\* lines 43-44: the sentence is short enough
TrimIdentity ==
  /\ trim_pc = "call"
  /\ Len(split(sentence)) <= max_words
  /\ trimmed' = trim_sentence_with_occurrence(sentence, occurrence_word, max_words)
  /\ trim_pc' = "done"
  /\ UNCHANGED <<sentence, occurrence_word, max_words, occurrence_pos, start, end>>
  /\ UNCHANGED mainVars

\* lines 65-66: no word passed the test
TrimNotFound ==
  /\ trim_pc = "call"
  /\ Len(split(sentence)) > max_words
  /\ FindOccurrence(split(sentence), occurrence_word) = 0 - 1
  /\ occurrence_pos' = 0 - 1
  /\ trimmed' = trim_sentence_with_occurrence(sentence, occurrence_word, max_words)
  /\ trim_pc' = "done"
  /\ UNCHANGED <<sentence, occurrence_word, max_words, start, end>>
  /\ UNCHANGED mainVars

\* lines 68-86: the window around the matched position
TrimWindow ==
  /\ trim_pc = "call"
  /\ Len(split(sentence)) > max_words
  /\ FindOccurrence(split(sentence), occurrence_word) # 0 - 1
  /\ occurrence_pos' = FindOccurrence(split(sentence), occurrence_word)
  /\ start' = WindowStart(Len(split(sentence)), occurrence_pos', max_words)
  /\ end' = WindowEnd(Len(split(sentence)), occurrence_pos', max_words)
  /\ trimmed' = trim_sentence_with_occurrence(sentence, occurrence_word, max_words)
  /\ trim_pc' = "done"
  /\ UNCHANGED <<sentence, occurrence_word, max_words>>
  /\ UNCHANGED mainVars

TrimNext == TrimIdentity \/ TrimNotFound \/ TrimWindow

SpecTrim == TrimInit /\ [][TrimNext]_vars

----------------------------------------------------------------------------
(* One run of main: the standard input, and the annotator's output, are
   drawn from bounded sets *)

MaxTokens == 3

W_x == <<"x">>
Fill(k) == [i \in 1..k |-> W_x]
Text(ws) == join(<<" ">>, ws)

\* the text of {"transcript": v} for the JSON text v
TranscriptJson(v) ==
  <<"{", "\"", "t", "r", "a", "n", "s", "c", "r", "i", "p", "t", "\"", ":">> \o v \o <<"}">>
Quoted(chars) == <<"\"">> \o chars \o <<"\"">>

NotJson == [type |-> "JSONDecodeError"]

\* what sys.stdin.read() returns, with what json.loads makes of it
Inputs ==
  { [raw |-> <<>>, loads |-> NotJson],
    [raw |-> <<" ", "\t">>, loads |-> NotJson],
    [raw |-> Text(<<W_Tag, W_zu>>), loads |-> NotJson],
    [raw |-> <<"[", "]">>, loads |-> Array],
    [raw |-> <<"5">>, loads |-> Num(5)],
    [raw |-> <<"{", "}">>, loads |-> Object(FALSE, Null)],
    [raw |-> TranscriptJson(Quoted(<<>>)), loads |-> Object(TRUE, Str(<<>>))],
    [raw |-> TranscriptJson(Quoted(<<" ">>)), loads |-> Object(TRUE, Str(<<" ">>))],
    [raw |-> TranscriptJson(Quoted(Text(<<W_Tag, W_zu>>))),
     loads |-> Object(TRUE, Str(Text(<<W_Tag, W_zu>>)))],
    [raw |-> TranscriptJson(<<"n", "u", "l", "l">>), loads |-> Object(TRUE, Null)],
    [raw |-> TranscriptJson(<<"0">>), loads |-> Object(TRUE, Num(0))],
    [raw |-> TranscriptJson(<<"5">>), loads |-> Object(TRUE, Num(5))] }

\* the texts of doc.sents: two short sentences, two of 22 words that differ
\* only after the twentieth word, and one of whitespace only
DocSents ==
  << <<" ">> \o Text(<<W_Tag, W_zu>>),
     Text(<<W_zu, W_TagDot>>),
     Text(<<W_Tag>> \o Fill(20) \o <<W_zu>>),
     Text(<<W_Tag>> \o Fill(19) \o <<W_zu, W_x>>),
     <<" ", " ">> >>

Token(text, lemma_, pos_, sent) ==
  [text |-> text, lemma_ |-> lemma_, pos_ |-> pos_,
   is_punct |-> FALSE, is_space |-> FALSE, sent |-> sent]

\* the tokens the annotator may yield
Tokens ==
  { Token(W_Tag, W_Tag, "NOUN", 1), Token(W_Tag, W_Tag, "NOUN", 2),
    Token(W_Tag, W_Tag, "NOUN", 3), Token(W_Tag, W_Tag, "NOUN", 4),
    Token(W_zu, W_zu, "NOUN", 1),
    Token(W_zu, W_zu, "VERB", 3),
    Token(W_Tag, W_Tag, "ADJ", 4),
    \* skipped: punctuation, space, empty lemma, blank sentence, no sentence
    [text |-> <<".">>, lemma_ |-> <<".">>, pos_ |-> "PUNCT",
     is_punct |-> TRUE, is_space |-> FALSE, sent |-> 2],
    [text |-> <<" ">>, lemma_ |-> <<" ">>, pos_ |-> "SPACE",
     is_punct |-> FALSE, is_space |-> TRUE, sent |-> 1],
    Token(W_x, <<" ">>, "NOUN", 3),
    Token(W_Tag, W_Tag, "NOUN", 5),
    Token(W_Tag, W_Tag, "VERB", 0),
    \* another part of speech
    Token(W_zu, W_zu, "ADP", 1) }

\* json.dumps of an error payload
ErrorObject(message) == [error |-> message]

\* str(e) for the failures that reach the handler
StrOf(e) ==
  CASE e = "AttributeError_get" -> "object has no attribute 'get'"
    [] e = "AttributeError_strip" -> "object has no attribute 'strip'"
    [] e = "AnnotatorError" -> "annotator failed"
    [] e = "SystemExit" -> "1"

\* the trimmer's variables while main runs
TrimIdle ==
  /\ sentence = <<>> /\ occurrence_word = <<>> /\ max_words = 0 /\ trim_pc = "idle"
  /\ occurrence_pos = None /\ start = None /\ end = None /\ trimmed = None

Init ==
  /\ pc = "start"
  /\ input_data \in Inputs
  /\ transcript = Unset /\ doc = <<>>
  /\ nouns = {} /\ verbs = {} /\ adjectives = {}
  /\ noun_occurrences = <<>> /\ noun_original_sentences = <<>>
  /\ verb_occurrences = <<>> /\ verb_original_sentences = <<>>
  /\ adjective_occurrences = <<>> /\ adjective_original_sentences = <<>>
  /\ result = Unset /\ exception = None
  /\ stdout = <<>> /\ stderr = <<>> /\ exit_code = None
  /\ TrimIdle

extractVars == <<doc, nouns, verbs, adjectives,
                 noun_occurrences, noun_original_sentences,
                 verb_occurrences, verb_original_sentences,
                 adjective_occurrences, adjective_original_sentences>>

\* sys.exit(1) inside the try block, lines 237 and 252: SystemExit passes the
\* handler unless the handler catches it
SysExit1 ==
  /\ exception' = "SystemExit"
  /\ IF ExceptCatches("SystemExit")
     THEN pc' = "except" /\ exit_code' = exit_code
     ELSE pc' = "exit" /\ exit_code' = 1

\* raise inside the try block
Raise(e) ==
  /\ exception' = e
  /\ IF ExceptCatches(e)
     THEN pc' = "except" /\ exit_code' = exit_code
     ELSE pc' = "exit" /\ exit_code' = 1

\* lines 232-237
MainNoInput ==
  /\ pc = "start"
  /\ input_data.raw = <<>>
  /\ stdout' = Append(stdout, ErrorObject("No input provided"))
  /\ SysExit1
  /\ UNCHANGED <<input_data, transcript, result, stderr>>
  /\ UNCHANGED extractVars /\ UNCHANGED trimVars

\* lines 243-245: not JSON, the whole input is the transcript
MainParseRaw ==
  /\ pc = "start"
  /\ input_data.raw # <<>>
  /\ input_data.loads.type = "JSONDecodeError"
  /\ transcript' = Str(strip(input_data.raw, Whitespace))
  /\ pc' = "check"
  /\ UNCHANGED <<input_data, result, exception, stdout, stderr, exit_code>>
  /\ UNCHANGED extractVars /\ UNCHANGED trimVars

\* lines 241-242 on a JSON object: data.get("transcript", "")
MainParseObject ==
  /\ pc = "start"
  /\ input_data.raw # <<>>
  /\ input_data.loads.type = "object"
  /\ transcript' = IF input_data.loads.has_transcript
                   THEN input_data.loads.transcript ELSE Str(<<>>)
  /\ pc' = "check"
  /\ UNCHANGED <<input_data, result, exception, stdout, stderr, exit_code>>
  /\ UNCHANGED extractVars /\ UNCHANGED trimVars

\* line 242 on JSON that is no object: data.get raises AttributeError
MainParseNotObject ==
  /\ pc = "start"
  /\ input_data.raw # <<>>
  /\ input_data.loads.type \notin {"JSONDecodeError", "object"}
  /\ Raise("AttributeError_get")
  /\ UNCHANGED <<input_data, transcript, result, stdout, stderr>>
  /\ UNCHANGED extractVars /\ UNCHANGED trimVars

\* lines 247-252
MainTranscriptEmpty ==
  /\ pc = "check"
  /\ ~Truthy(transcript)
  /\ stdout' = Append(stdout, ErrorObject("Transcript is empty"))
  /\ SysExit1
  /\ UNCHANGED <<input_data, transcript, result, stderr>>
  /\ UNCHANGED extractVars /\ UNCHANGED trimVars

\* line 100 on a transcript that is no str: text.strip raises AttributeError
ExtractNotStr ==
  /\ pc = "check"
  /\ Truthy(transcript)
  /\ transcript.type # "str"
  /\ Raise("AttributeError_strip")
  /\ UNCHANGED <<input_data, transcript, result, stdout, stderr>>
  /\ UNCHANGED extractVars /\ UNCHANGED trimVars

\* lines 100-108, 255-258: all-whitespace text gives the empty Result, which
\* main prints before it returns
ExtractBlank ==
  /\ pc = "check"
  /\ Truthy(transcript)
  /\ IsBlankText(transcript)
  /\ result' = EmptyResult
  /\ stdout' = Append(stdout, result')
  /\ exit_code' = 0
  /\ pc' = "exit"
  /\ UNCHANGED <<input_data, transcript, exception, stderr>>
  /\ UNCHANGED extractVars /\ UNCHANGED trimVars

\* line 111: the annotator returns a document
AnnotateOk ==
  /\ pc = "check"
  /\ Truthy(transcript)
  /\ transcript.type = "str" /\ ~IsBlankText(transcript)
  /\ pc' = "loop"
  /\ UNCHANGED <<input_data, transcript, result, exception, stdout, stderr, exit_code>>
  /\ UNCHANGED extractVars /\ UNCHANGED trimVars

\* line 111: the annotator raises
AnnotateRaises ==
  /\ pc = "check"
  /\ Truthy(transcript)
  /\ transcript.type = "str" /\ ~IsBlankText(transcript)
  /\ Raise("AnnotatorError")
  /\ UNCHANGED <<input_data, transcript, result, stdout, stderr>>
  /\ UNCHANGED extractVars /\ UNCHANGED trimVars

mainFrame == <<pc, input_data, transcript, result, exception, stdout, stderr, exit_code>>

\* lines 127-150: an iteration that ends in one of the continue statements
SkipToken ==
  /\ pc = "loop" /\ Len(doc) < MaxTokens
  /\ \E token \in Tokens :
       /\ SkipsToken(DocSents, token)
       /\ doc' = Append(doc, token)
  /\ UNCHANGED <<nouns, verbs, adjectives,
                 noun_occurrences, noun_original_sentences,
                 verb_occurrences, verb_original_sentences,
                 adjective_occurrences, adjective_original_sentences>>
  /\ UNCHANGED mainFrame /\ UNCHANGED trimVars

\* lines 153-164
NounToken ==
  /\ pc = "loop" /\ Len(doc) < MaxTokens
  /\ \E token \in Tokens :
       /\ ~SkipsToken(DocSents, token)
       /\ token.pos_ = "NOUN"
       /\ doc' = Append(doc, token)
       /\ nouns' = AddLemma(nouns, Lemma(token))
       /\ noun_original_sentences' =
            AddOriginalSentence(noun_original_sentences, Lemma(token),
                                ContainingSentence(DocSents, token))
       /\ noun_occurrences' =
            AddOccurrence(noun_occurrences, noun_original_sentences, Lemma(token),
                          ContainingSentence(DocSents, token), token.text)
  /\ UNCHANGED <<verbs, adjectives, verb_occurrences, verb_original_sentences,
                 adjective_occurrences, adjective_original_sentences>>
  /\ UNCHANGED mainFrame /\ UNCHANGED trimVars

\* lines 165-176
VerbToken ==
  /\ pc = "loop" /\ Len(doc) < MaxTokens
  /\ \E token \in Tokens :
       /\ ~SkipsToken(DocSents, token)
       /\ token.pos_ = "VERB"
       /\ doc' = Append(doc, token)
       /\ verbs' = AddLemma(verbs, Lemma(token))
       /\ verb_original_sentences' =
            AddOriginalSentence(verb_original_sentences, Lemma(token),
                                ContainingSentence(DocSents, token))
       /\ verb_occurrences' =
            AddOccurrence(verb_occurrences, verb_original_sentences, Lemma(token),
                          ContainingSentence(DocSents, token), token.text)
  /\ UNCHANGED <<nouns, adjectives, noun_occurrences, noun_original_sentences,
                 adjective_occurrences, adjective_original_sentences>>
  /\ UNCHANGED mainFrame /\ UNCHANGED trimVars

\* lines 177-188
AdjToken ==
  /\ pc = "loop" /\ Len(doc) < MaxTokens
  /\ \E token \in Tokens :
       /\ ~SkipsToken(DocSents, token)
       /\ token.pos_ = "ADJ"
       /\ doc' = Append(doc, token)
       /\ adjectives' = AddLemma(adjectives, Lemma(token))
       /\ adjective_original_sentences' =
            AddOriginalSentence(adjective_original_sentences, Lemma(token),
                                ContainingSentence(DocSents, token))
       /\ adjective_occurrences' =
            AddOccurrence(adjective_occurrences, adjective_original_sentences,
                          Lemma(token), ContainingSentence(DocSents, token), token.text)
  /\ UNCHANGED <<nouns, verbs, noun_occurrences, noun_original_sentences,
                 verb_occurrences, verb_original_sentences>>
  /\ UNCHANGED mainFrame /\ UNCHANGED trimVars

\* lines 153-188: no branch of the if/elif chain is taken
OtherToken ==
  /\ pc = "loop" /\ Len(doc) < MaxTokens
  /\ \E token \in Tokens :
       /\ ~SkipsToken(DocSents, token)
       /\ token.pos_ \notin {"NOUN", "VERB", "ADJ"}
       /\ doc' = Append(doc, token)
  /\ UNCHANGED <<nouns, verbs, adjectives,
                 noun_occurrences, noun_original_sentences,
                 verb_occurrences, verb_original_sentences,
                 adjective_occurrences, adjective_original_sentences>>
  /\ UNCHANGED mainFrame /\ UNCHANGED trimVars

\* lines 190-223, 255-258: the tokens are exhausted, the Result is built and
\* returned, and main prints it and returns
BuildResult ==
  /\ pc = "loop"
  /\ result' = BuiltResult
  /\ stdout' = Append(stdout, result')
  /\ exit_code' = 0
  /\ pc' = "exit"
  /\ UNCHANGED <<input_data, transcript, exception, stderr>>
  /\ UNCHANGED extractVars /\ UNCHANGED trimVars

\* lines 260-265
ExceptHandler ==
  /\ pc = "except"
  /\ stderr' = Append(stderr, ErrorObject(StrOf(exception)))
  /\ exit_code' = 1
  /\ pc' = "exit"
  /\ UNCHANGED <<input_data, transcript, result, exception, stdout>>
  /\ UNCHANGED extractVars /\ UNCHANGED trimVars

Next ==
  \/ MainNoInput \/ MainParseRaw \/ MainParseObject \/ MainParseNotObject
  \/ MainTranscriptEmpty \/ ExtractNotStr \/ ExtractBlank
  \/ AnnotateOk \/ AnnotateRaises
  \/ SkipToken \/ NounToken \/ VerbToken \/ AdjToken \/ OtherToken
  \/ BuildResult \/ ExceptHandler

Spec == Init /\ [][Next]_vars

----------------------------------------------------------------------------
(* Properties of the trimmer, under SpecTrim *)

\* the 0-based indices of the words that equal the target after normalization
ExactHits(words, word) ==
  {i \in 0..(Len(words) - 1) : Clean(words[i + 1]) = Clean(word)}

TrimLong == trim_pc = "done" /\ Len(split(sentence)) > max_words
TrimMatched == TrimLong /\ occurrence_pos # 0 - 1

\* C1: a sentence of more than max_words words is trimmed to at most
\* max_words words, wherever the target is matched and when it is not.
C1_BoundedOutput ==
  TrimLong => Len(split(trimmed)) <= max_words

\* C2: in a sentence of more than max_words words that holds a word equal to
\* the target after normalization, the matched position is the leftmost such
\* word, even when a near-match word stands before it.
C2_ExactMatchFirst ==
  (TrimLong /\ ExactHits(split(sentence), occurrence_word) # {})
    => occurrence_pos = SetMin(ExactHits(split(sentence), occurrence_word))

\* C3: when some word of the sentence equals the target after normalization,
\* the returned string holds a word that equals the target after normalization.
C3_TargetPreserved ==
  (trim_pc = "done" /\ ExactHits(split(sentence), occurrence_word) # {})
    => ExactHits(split(trimmed), occurrence_word) # {}

\* C4: with a matched position p in a sentence of n > max_words words, the
\* excerpt is words[start:end] with 0 <= start <= p < end <= n: a contiguous,
\* unreordered run of the sentence's words that holds the word at p.
C4_Containment ==
  TrimMatched =>
    /\ 0 <= start /\ start <= occurrence_pos
    /\ occurrence_pos < end /\ end <= Len(split(sentence))
    /\ split(trimmed) = Slice(split(sentence), start, end)
    /\ trimmed = join(<<" ">>, Slice(split(sentence), start, end))

\* a matched position at the last word, with words cut off before the window
C4_Witness ==
  /\ TrimMatched
  /\ occurrence_pos = Len(split(sentence)) - 1
  /\ start > 0
  /\ Len(split(trimmed)) >= 2

\* C9: with a matched position in a sentence of more than max_words words the
\* excerpt has no fewer than max_words words, also for a target near the end.
C9_BudgetSpent ==
  TrimMatched => Len(split(trimmed)) >= max_words

----------------------------------------------------------------------------
(* Properties of extract_pos_tags and main, under Spec.  doc holds the tokens
   the loop has iterated over, in order. *)

Categories == {"NOUN", "VERB", "ADJ"}
AllLemmas == {Lemma(t) : t \in Tokens}

LemmaSetOf(cat) ==
  CASE cat = "NOUN" -> nouns [] cat = "VERB" -> verbs [] cat = "ADJ" -> adjectives
OccurrencesOf(cat) ==
  CASE cat = "NOUN" -> noun_occurrences
    [] cat = "VERB" -> verb_occurrences
    [] cat = "ADJ" -> adjective_occurrences
KeyOf(cat) ==
  CASE cat = "NOUN" -> "noun" [] cat = "VERB" -> "infinitive" [] cat = "ADJ" -> "adjective"
ResultLemmas(cat) ==
  CASE cat = "NOUN" -> result.nouns
    [] cat = "VERB" -> result.verbs
    [] cat = "ADJ" -> result.adjectives
ResultOccurrences(cat) ==
  CASE cat = "NOUN" -> result.noun_occurrences
    [] cat = "VERB" -> result.verb_occurrences
    [] cat = "ADJ" -> result.adjective_occurrences

Succeeded == pc = "exit" /\ exit_code = 0

\* the stripped text of each sentence of the document, its number of words,
\* and the phrase the trimmer makes of it for each token text
SentText == [i \in 1..Len(DocSents) |-> strip(DocSents[i], Whitespace)]
SentWordCount == [i \in 1..Len(DocSents) |-> Len(split(SentText[i]))]
PhraseOf ==
  [i \in 1..Len(DocSents), w \in {t.text : t \in Tokens} |->
     trim_sentence_with_occurrence(SentText[i], w, PhraseMaxWords)]

SentenceOf(token) == SentText[token.sent]

\* the token is a word of the category with the lemma, inside a sentence
Occurs(token, cat, lemma) ==
  /\ ~token.is_punct /\ ~token.is_space
  /\ token.pos_ = cat
  /\ strip(lower(token.lemma_), Whitespace) = lemma
  /\ lemma # <<>>
  /\ token.sent \in 1..Len(DocSents)
  /\ SentText[token.sent] # <<>>

\* positions in doc of the tokens of the lemma and category
OccurrenceIdx(cat, lemma) == {i \in 1..Len(doc) : Occurs(doc[i], cat, lemma)}

\* the distinct sentence texts the lemma occurred in
SentencesSeen(cat, lemma) == {SentenceOf(doc[i]) : i \in OccurrenceIdx(cat, lemma)}

\* the positions at which a sentence text is seen for the first time
FirstSeenIdx(cat, lemma) ==
  LET occ == OccurrenceIdx(cat, lemma)
  IN {i \in occ : \A j \in occ : j < i => SentenceOf(doc[j]) # SentenceOf(doc[i])}

RECURSIVE Ascending(_)
Ascending(S) == IF S = {} THEN <<>> ELSE <<SetMin(S)>> \o Ascending(S \ {SetMin(S)})

\* one phrase per distinct sentence text, in first-seen order
FirstSeenPhrases(cat, lemma) ==
  LET idx == Ascending(FirstSeenIdx(cat, lemma))
  IN [k \in 1..Len(idx) |-> PhraseOf[doc[idx[k]].sent, doc[idx[k]].text]]

\* the phrases the Result lists under the lemma, in list order
ResultPhrases(cat, lemma) ==
  LET es == SelectSeq(ResultOccurrences(cat), LAMBDA e : e[KeyOf(cat)] = lemma)
  IN [k \in 1..Len(es) |-> es[k].phrase]

NoDuplicates(seq) == \A i, j \in 1..Len(seq) : i # j => seq[i] # seq[j]

\* C5: after any prefix of the token pass, for each category and lemma the
\* number of recorded phrases equals the number of distinct containing-sentence
\* texts the lemma occurred in (one phrase per lemma and sentence text, however
\* many tokens or repetitions), and the phrases are in first-seen order.
C5_Dedup ==
  \A cat \in Categories : \A lemma \in AllLemmas :
    /\ Len(Phrases(OccurrencesOf(cat), lemma)) = Cardinality(SentencesSeen(cat, lemma))
    /\ Phrases(OccurrencesOf(cat), lemma) = FirstSeenPhrases(cat, lemma)

\* three tokens of one lemma, two of them in the same sentence
C5_Witness ==
  \E cat \in Categories : \E lemma \in AllLemmas :
    /\ Cardinality(OccurrenceIdx(cat, lemma)) = 3
    /\ Len(Phrases(OccurrencesOf(cat), lemma)) = 2

\* C6 as stated: in the Result no lemma lists a phrase twice, for every document.
C6_DistinctPhrases ==
  Succeeded =>
    \A cat \in Categories : \A lemma \in AllLemmas : NoDuplicates(ResultPhrases(cat, lemma))

\* C6 amended: in the Result a lemma lists one phrase per distinct sentence
\* text, and two of its entries carry the same phrase only if at least one of
\* the two sentences they were made from has more than 20 words.
C6_DistinctPhrasesOfShortSentences ==
  Succeeded =>
    \A cat \in Categories : \A lemma \in AllLemmas :
      LET idx == Ascending(FirstSeenIdx(cat, lemma))
          phrases == ResultPhrases(cat, lemma)
      IN /\ Len(phrases) = Len(idx)
         /\ \A i, j \in 1..Len(phrases) :
              (/\ i # j
               /\ SentWordCount[doc[idx[i]].sent] <= PhraseMaxWords
               /\ SentWordCount[doc[idx[j]].sent] <= PhraseMaxWords)
                => phrases[i] # phrases[j]

\* a lemma seen in two short sentences and in a long one
C6_Witness ==
  /\ Succeeded
  /\ \E cat \in Categories : \E lemma \in AllLemmas :
       /\ Len(ResultPhrases(cat, lemma)) = 3
       /\ Cardinality({i \in OccurrenceIdx(cat, lemma) :
                         SentWordCount[doc[i].sent] <= PhraseMaxWords}) = 2

StrictlyAscending(seq) == \A i, j \in 1..Len(seq) : i < j => StrLess(seq[i], seq[j])

\* C7: in the Result nouns, verbs and adjectives are strictly ascending; each
\* occurrence list is ordered by lemma ascending (so the entries of a lemma are
\* adjacent) and lists, per lemma, its phrases in first-seen sentence order.
C7_SortOrder ==
  Succeeded =>
    \A cat \in Categories :
      /\ StrictlyAscending(ResultLemmas(cat))
      /\ \A i, j \in 1..Len(ResultOccurrences(cat)) :
           i < j => ~StrLess(ResultOccurrences(cat)[j][KeyOf(cat)],
                             ResultOccurrences(cat)[i][KeyOf(cat)])
      /\ \A lemma \in AllLemmas : ResultPhrases(cat, lemma) = FirstSeenPhrases(cat, lemma)

\* the lemma seen first sorts last, and the other lemma has two phrases
C7_Witness ==
  /\ Succeeded
  /\ Len(result.nouns) = 2
  /\ Len(result.noun_occurrences) = 3
  /\ Occurs(doc[1], "NOUN", result.nouns[2])
  /\ result.noun_occurrences[1].noun = result.nouns[1]
  /\ result.noun_occurrences[2].noun = result.nouns[1]

SixFields ==
  {"nouns", "verbs", "adjectives", "verb_occurrences", "noun_occurrences",
   "adjective_occurrences"}

Failed == exception \notin {None, "SystemExit"}

\* C8: every run ends in exactly one outcome with exactly one JSON object:
\* the no-input error, else the error of a raised failure on the error stream,
\* else the empty-transcript error, each with exit status 1, else the six-field
\* Result with exit status 0; and a raised failure is always caught.
C8_Outcomes ==
  /\ Failed => pc \in {"except", "exit"}
  /\ pc = "exit" =>
       /\ Len(stdout) + Len(stderr) = 1
       /\ IF input_data.raw = <<>>
          THEN stdout = <<ErrorObject("No input provided")>> /\ exit_code = 1
          ELSE IF Failed
          THEN stderr = <<ErrorObject(StrOf(exception))>> /\ exit_code = 1
          ELSE IF ~Truthy(transcript)
          THEN stdout = <<ErrorObject("Transcript is empty")>> /\ exit_code = 1
          ELSE stdout = <<result>> /\ DOMAIN result = SixFields /\ exit_code = 0

\* a run that failed inside extract_pos_tags and has ended
C8_Witness ==
  /\ pc = "exit"
  /\ exception = "AttributeError_strip"
  /\ stderr = <<ErrorObject(StrOf("AttributeError_strip"))>>
  /\ stdout = <<>>

\* the token is one the loop is to pass over
PassedOver(token) ==
  \/ token.is_punct \/ token.is_space
  \/ strip(lower(token.lemma_), Whitespace) = <<>>
  \/ token.sent \notin 1..Len(DocSents)
  \/ (token.sent \in 1..Len(DocSents) /\ SentText[token.sent] = <<>>)
  \/ token.pos_ \notin Categories

C10_Agree ==
  /\ \A cat \in Categories :
       /\ LemmaSetOf(cat) = DOMAIN OccurrencesOf(cat)
       /\ \A lemma \in LemmaSetOf(cat) : Len(OccurrencesOf(cat)[lemma]) >= 1
  /\ Succeeded =>
       \A cat \in Categories :
         {ResultLemmas(cat)[i] : i \in 1..Len(ResultLemmas(cat))}
           = {ResultOccurrences(cat)[i][KeyOf(cat)] : i \in 1..Len(ResultOccurrences(cat))}

C10_PassOver ==
  (Len(doc') = Len(doc) + 1 /\ PassedOver(doc'[Len(doc')]))
    => UNCHANGED <<nouns, verbs, adjectives,
                   noun_occurrences, verb_occurrences, adjective_occurrences>>

\* C10: after any prefix of the token pass, and in the Result, the lemma set of
\* each category equals the set of lemmas with an occurrence entry and each such
\* lemma has at least one phrase; a token that is punctuation or space, has an
\* empty normalized lemma, no containing sentence or another part of speech
\* leaves the lemma sets and the occurrence lists unchanged.
C10_LemmaSetAndIndexAgree == [](C10_Agree) /\ [][C10_PassOver]_vars

\* a token was passed over after a lemma had been recorded
C10_Witness ==
  /\ Len(doc) >= 2
  /\ Occurs(doc[1], "NOUN", Lemma(doc[1]))
  /\ PassedOver(doc[2])
  /\ nouns = {Lemma(doc[1])}
  /\ Succeeded

====
